---- MODULE Spec2Model ----
(***************************************************************************)
(* A model of the Test API Server (src/server.js): an Express application  *)
(* that serves schema-less MongoDB collections over HTTP.                  *)
(*                                                                         *)
(* Strings of the program are sequences of one-character strings, so that  *)
(* the program's string operations (regular expressions, endsWith, slice,  *)
(* parseInt) are computed character by character.                          *)
(***************************************************************************)
EXTENDS Integers, Sequences, FiniteSets, TLC

VARIABLES
    globalHits,     \* globalLimiter's store: client IP -> requests counted in the window
    writeHits,      \* writeLimiter's store: client IP -> write requests counted in the window
    dynamicModels,  \* the Map of line 96: sanitized name -> handle
    handles,        \* mongoose's models, in construction order: handle h is for name handles[h]
    db,             \* MongoDB: collection name -> set of stored documents
    now,            \* the server clock (Date.now()), in ticks
    nextId,         \* the next ObjectId MongoDB hands out
    inflight,       \* List requests that awaited find() and have countDocuments() to come
    req,            \* the request whose response was sent last
    resp,           \* that response
    seen,           \* per IP: requests received in the window, counted by the limiters or not
    seenWrites,     \* per IP: POST/PUT/PATCH/DELETE requests received in the window
    cleared,        \* per collection: emptied by DELETE /:collection and not written since
    queryParams,    \* the input of a translation (req.query)
    translated      \* buildQuery's result for it

vars == <<globalHits, writeHits, dynamicModels, handles, db, now, nextId, inflight,
          req, resp, seen, seenWrites, cleared, queryParams, translated>>

----------------------------------------------------------------------------
(* Strings *)

RECURSIVE Rep(_, _)
\* The string of n copies of character c.
Rep(c, n) == IF n = 0 THEN <<>> ELSE <<c>> \o Rep(c, n - 1)

\* String.prototype.startsWith / endsWith / slice(0, -k)
StartsWith(s, p) == Len(s) >= Len(p) /\ SubSeq(s, 1, Len(p)) = p
EndsWith(s, p) == Len(s) >= Len(p) /\ SubSeq(s, Len(s) - Len(p) + 1, Len(s)) = p
DropLast(s, k) == IF Len(s) >= k THEN SubSeq(s, 1, Len(s) - k) ELSE <<>>

\* The characters of the class [a-zA-Z0-9_-] among the characters the model writes.
WordChars == {"a", "b", "c", "f", "g", "p", "x", "Z", "0", "1", "2", "5", "9", "_", "-"}

----------------------------------------------------------------------------
(* Utility functions, lines 126-168 *)

NameMaxLen == 50

\* /^[a-zA-Z0-9_-]{1,50}$/.test(name)
isValidCollectionName(name) ==
    /\ Len(name) >= 1
    /\ Len(name) <= NameMaxLen
    /\ \A i \in 1..Len(name) : name[i] \in WordChars

\* collectionName.replace(/[^a-zA-Z0-9_-]/g, "")
IsWordChar(c) == c \in WordChars
sanitizedName(collectionName) == SelectSeq(collectionName, IsWordChar)

\* The value of a digit in radix 16, or 99 for a character that is no digit.
DigitVal(c) ==
    CASE c = "0" -> 0 [] c = "1" -> 1 [] c = "2" -> 2 [] c = "3" -> 3 [] c = "4" -> 4
      [] c = "5" -> 5 [] c = "6" -> 6 [] c = "7" -> 7 [] c = "8" -> 8 [] c = "9" -> 9
      [] c \in {"a", "A"} -> 10 [] c \in {"b", "B"} -> 11 [] c \in {"c", "C"} -> 12
      [] c \in {"d", "D"} -> 13 [] c \in {"e", "E"} -> 14 [] c \in {"f", "F"} -> 15
      [] OTHER -> 99

RECURSIVE Digits(_, _, _, _)
\* The longest prefix of s[i..] made of digits of the radix, as (count, value).
Digits(s, i, radix, acc) ==
    IF i <= Len(s) /\ DigitVal(s[i]) < radix
    THEN Digits(s, i + 1, radix, [n |-> acc.n + 1, v |-> acc.v * radix + DigitVal(s[i])])
    ELSE acc

RECURSIVE SkipSpace(_, _)
SkipSpace(s, i) == IF i <= Len(s) /\ s[i] = " " THEN SkipSpace(s, i + 1) ELSE i

\* JavaScript's parseInt(s) with no radix: leading white space, a sign, a 0x prefix,
\* then digits up to the first character that is none. NaN when there is no digit.
parseInt(s) ==
    LET i == SkipSpace(s, 1)
        neg == i <= Len(s) /\ s[i] = "-"
        j == IF i <= Len(s) /\ s[i] \in {"-", "+"} THEN i + 1 ELSE i
        hex == j + 1 <= Len(s) /\ s[j] = "0" /\ s[j + 1] \in {"x", "X"}
        d == IF hex THEN Digits(s, j + 2, 16, [n |-> 0, v |-> 0])
             ELSE Digits(s, j, 10, [n |-> 0, v |-> 0])
    IN  IF d.n = 0 THEN [nan |-> TRUE, v |-> 0]
        ELSE [nan |-> FALSE, v |-> IF neg THEN 0 - d.v ELSE d.v]

\* x || dflt, for x a result of parseInt: NaN and 0 are falsy.
OrElse(x, dflt) == IF x.nan \/ x.v = 0 THEN dflt ELSE x.v

Min(a, b) == IF a <= b THEN a ELSE b
Max(a, b) == IF a >= b THEN a ELSE b

DefaultLimit == 100
MaxLimit == 1000

\* Line 144: Math.min(parseInt(value) || 100, 1000)
LimitOf(value) == Min(OrElse(parseInt(value), DefaultLimit), MaxLimit)

\* Line 146: Math.max(parseInt(value) || 0, 0)
SkipOf(value) == Max(OrElse(parseInt(value), 0), 0)

\* Lines 148-150: the sort of "_sort=value", as <<field, order>>
SortOf(value) ==
    IF StartsWith(value, <<"-">>) THEN <<Tail(value), 0 - 1>> ELSE <<value, 1>>

\* Program strings named by the translator.
KeyLimit == <<"_", "l", "i", "m", "i", "t">>
KeySkip == <<"_", "s", "k", "i", "p">>
KeyOffset == <<"_", "o", "f", "f", "s", "e", "t">>
KeySort == <<"_", "s", "o", "r", "t">>
KeySearch == <<"_", "s", "e", "a", "r", "c", "h">>
SufGte == <<"_", "g", "t", "e">>
SufLte == <<"_", "l", "t", "e">>
SufNe == <<"_", "n", "e">>
FieldText == <<"$", "t", "e", "x", "t">>
FieldCreatedAt == <<"c", "r", "e", "a", "t", "e", "d", "A", "t">>

\* A filter's value for a field is a string (equality) or an object of operators.
StrVal(s) == [t |-> "str", s |-> s, ops |-> <<>>]
ObjVal(ops) == [t |-> "obj", s |-> <<>>, ops |-> ops]

\* The name of own property i of a String object.
IndexKey(i) ==
    CASE i = 0 -> "0" [] i = 1 -> "1" [] i = 2 -> "2" [] i = 3 -> "3" [] OTHER -> "4+"

\* { ...x }: the own enumerable properties of x. undefined has none, an object has its
\* own, and a string has one per character, named by the character's index.
Spread(query, field) ==
    IF field \notin DOMAIN query THEN <<>>
    ELSE IF query[field].t = "obj" THEN query[field].ops
    ELSE [k \in {IndexKey(i - 1) : i \in 1..Len(query[field].s)} |->
            LET i == CHOOSE i \in 1..Len(query[field].s) : IndexKey(i - 1) = k
            IN  <<query[field].s[i]>>]

\* obj[key] = value, on a function that stands for an object
Put(obj, key, value) ==
    [k \in DOMAIN obj \cup {key} |-> IF k = key THEN value ELSE obj[k]]

\* Lines 159-161: query[field] = { $ne: value }
NeMerging(query, field, value) ==
    Put(query, field, ObjVal(Put(Spread(query, field), "$ne", value)))
NeAssign(query, field, value) == Put(query, field, ObjVal(Put(<<>>, "$ne", value)))

\* Lines 143-164: one iteration of the loop over Object.entries(queryParams)
buildQueryStep(acc, key, value) ==
    IF key = KeyLimit THEN [acc EXCEPT !.options.limit = LimitOf(value)]
    ELSE IF key = KeySkip \/ key = KeyOffset THEN [acc EXCEPT !.options.skip = SkipOf(value)]
    ELSE IF key = KeySort THEN [acc EXCEPT !.options.sort = SortOf(value)]
    ELSE IF key = KeySearch
      THEN [acc EXCEPT !.query = Put(@, FieldText, ObjVal(Put(<<>>, "$search", value)))]
    ELSE IF EndsWith(key, SufGte)
      THEN LET field == DropLast(key, 4)
           IN  [acc EXCEPT !.query = Put(@, field, ObjVal(Put(Spread(@, field), "$gte", value)))]
    ELSE IF EndsWith(key, SufLte)
      THEN LET field == DropLast(key, 4)
           IN  [acc EXCEPT !.query = Put(@, field, ObjVal(Put(Spread(@, field), "$lte", value)))]
    ELSE IF EndsWith(key, SufNe)
      THEN [acc EXCEPT !.query = NeAssign(@, DropLast(key, 3), value)]
    ELSE IF ~StartsWith(key, <<"_">>) THEN [acc EXCEPT !.query = Put(@, key, StrVal(value))]
    ELSE acc

RECURSIVE buildQueryFrom(_, _, _)
buildQueryFrom(acc, params, i) ==
    IF i > Len(params) THEN acc
    ELSE buildQueryFrom(buildQueryStep(acc, params[i][1], params[i][2]), params, i + 1)

\* Lines 134-168. queryParams is the sequence of Object.entries(req.query).
buildQuery(params) ==
    buildQueryFrom([query |-> <<>>,
                    options |-> [limit |-> DefaultLimit, skip |-> 0,
                                 sort |-> <<FieldCreatedAt, 0 - 1>>]],
                   params, 1)

----------------------------------------------------------------------------
(* Requests, responses and documents *)

IPs == {"ip1", "ip2"}

\* A stored document: the ObjectId, the two timestamps of `timestamps: true`, and the
\* user's fields (strict: false). NoDoc stands for null.
NoDoc == [id |-> 0, createdAt |-> 0, updatedAt |-> 0, fields |-> <<>>]

\* JSON values of a body: numbers and strings.
Num(n) == [t |-> "num", n |-> n, s |-> <<>>]
Str(s) == [t |-> "str", n |-> 0, s |-> s]

\* An ObjectId in a path: well-formed (24 hex digits, here the number it stands for)
\* or not.
Oid(n) == [ok |-> TRUE, n |-> n]
BadId == [ok |-> FALSE, n |-> 0]

\* A request: the method, the shape of the path ("one": /x, "two": /x/y, "other":
\* anything no route matches), the first segment, the second segment, req.query as
\* its entries, the JSON body as parsed, and whether the body is over the parsers' limit.
Request(method, shape, coll, id, query, body, oversize) ==
    [method |-> method, shape |-> shape, coll |-> coll, id |-> id,
     query |-> query, body |-> body, oversize |-> oversize]

NoRequest == Request("none", "other", <<>>, BadId, <<>>, <<>>, FALSE)

\* A response. type is "json" for res.json(object), "text" for res.send(string) and
\* "file" for a static file; error is the object's `error` field (hasError says whether
\* there is one). The rest records what ran for the request: the route handler, the
\* calls of getDynamicModel, the handle it returned, the store operations, and
\* whether the body parsers let the request through.
Response(status, type, hasError, error) ==
    [status |-> status, type |-> type, hasError |-> hasError, error |-> error,
     count |-> 0, total |-> 0, limit |-> 0, deletedCount |-> 0, doc |-> NoDoc, prev |-> NoDoc,
     ip |-> "none", handler |-> "none", registryCalls |-> 0, model |-> 0, storeOps |-> 0,
     parsed |-> FALSE]

NoResponse == Response(0, "none", FALSE, "")

JsonError(status, error) == Response(status, "json", TRUE, error)
JsonOk(status) == Response(status, "json", FALSE, "")

IndexHtml == <<"i", "n", "d", "e", "x", ".", "h", "t", "m", "l">>
Collections == <<"c", "o", "l", "l", "e", "c", "t", "i", "o", "n", "s">>

WriteMethods == {"POST", "PUT", "PATCH", "DELETE"}

----------------------------------------------------------------------------
(* The registry, lines 96-124 *)

\* The part of the state a handler reads and writes.
HandlerState == [dynamicModels |-> dynamicModels, handles |-> handles, db |-> db,
                 now |-> now, nextId |-> nextId, cleared |-> cleared]

\* mongoose.model(name, schema): compiles a model, once per name (a second call for
\* a name with a schema throws OverwriteModelError), and with the index of line 118
\* the collection comes to exist.
Compile(st, name) ==
    [st EXCEPT !.handles = Append(@, name),
               !.dynamicModels = Put(@, name, Len(st.handles) + 1),
               !.db = IF name \in DOMAIN @ THEN @ ELSE Put(@, name, {})]

Compiled(st, name) == \E i \in 1..Len(st.handles) : st.handles[i] = name

getDynamicModelUnmemoized(st, collectionName) ==
    LET name == sanitizedName(collectionName)
    IN  IF Compiled(st, name) THEN [st |-> st, model |-> 0, threw |-> TRUE]
        ELSE [st |-> Compile(st, name), model |-> Len(st.handles) + 1, threw |-> FALSE]

getDynamicModel(st, collectionName) ==
    LET name == sanitizedName(collectionName)
    IN  IF name \in DOMAIN st.dynamicModels
        THEN [st |-> st, model |-> st.dynamicModels[name], threw |-> FALSE]
        ELSE IF Compiled(st, name) THEN [st |-> st, model |-> 0, threw |-> TRUE]
        ELSE [st |-> Compile(st, name), model |-> Len(st.handles) + 1, threw |-> FALSE]

----------------------------------------------------------------------------
(* The store: Mongoose's operations on a model's collection *)

CharCode(c) ==
    CASE c = "-" -> 45 [] c = "0" -> 48 [] c = "1" -> 49 [] c = "2" -> 50 [] c = "5" -> 53
      [] c = "9" -> 57 [] c = "Z" -> 90 [] c = "_" -> 95 [] c = "a" -> 97 [] c = "b" -> 98
      [] c = "c" -> 99 [] c = "f" -> 102 [] c = "g" -> 103 [] c = "p" -> 112
      [] c = "x" -> 120 [] OTHER -> 0

RECURSIVE StrLeq(_, _)
\* s <= t in the order MongoDB compares strings
StrLeq(s, t) ==
    IF s = <<>> THEN TRUE
    ELSE IF t = <<>> THEN FALSE
    ELSE IF CharCode(Head(s)) # CharCode(Head(t)) THEN CharCode(Head(s)) < CharCode(Head(t))
    ELSE StrLeq(Tail(s), Tail(t))

\* Whether a document's field holds a string that satisfies P's comparison with v.
IsStrField(doc, f) == f \in DOMAIN doc.fields /\ doc.fields[f].t = "str"

MatchOp(doc, f, op, v) ==
    CASE op = "$gte" -> IsStrField(doc, f) /\ StrLeq(v, doc.fields[f].s)
      [] op = "$lte" -> IsStrField(doc, f) /\ StrLeq(doc.fields[f].s, v)
      [] op = "$ne" -> ~(IsStrField(doc, f) /\ doc.fields[f].s = v)
      [] OTHER -> FALSE

\* Whether a document matches a filter of buildQuery. Filter values are strings and
\* are not cast (strict: false has no paths to cast by), so they match strings only.
Match(doc, query) ==
    \A f \in DOMAIN query :
        IF f = FieldText
        THEN \E g \in DOMAIN doc.fields : doc.fields[g].t = "str"
                                          /\ doc.fields[g].s = query[f].ops["$search"]
        ELSE IF query[f].t = "str" THEN IsStrField(doc, f) /\ doc.fields[f].s = query[f].s
        ELSE \A op \in DOMAIN query[f].ops : MatchOp(doc, f, op, query[f].ops[op])

Collection(st, model) == st.db[st.handles[model]]

\* Model.countDocuments(query)
countDocuments(st, model, query) ==
    Cardinality({d \in Collection(st, model) : Match(d, query)})

\* The value a sort orders by.
SortKey(doc, field) ==
    IF field = FieldCreatedAt THEN doc.createdAt
    ELSE IF field \in DOMAIN doc.fields /\ doc.fields[field].t = "num" THEN doc.fields[field].n
    ELSE 0

RECURSIVE Sorted(_, _)
\* The documents of a set in the order of a sort <<field, order>>; ties by ObjectId.
Sorted(docs, sort) ==
    IF docs = {} THEN <<>>
    ELSE LET first == CHOOSE d \in docs : \A e \in docs :
                        \/ sort[2] * SortKey(d, sort[1]) < sort[2] * SortKey(e, sort[1])
                        \/ /\ SortKey(d, sort[1]) = SortKey(e, sort[1])
                           /\ d.id <= e.id
         IN  <<first>> \o Sorted(docs \ {first}, sort)

Abs(n) == IF n < 0 THEN 0 - n ELSE n

\* Model.find(query).limit(l).skip(s).sort(sort): MongoDB reads limit 0 as no limit
\* and a negative limit as its absolute value.
find(st, model, query, options) ==
    LET all == Sorted({d \in Collection(st, model) : Match(d, query)}, options.sort)
        from == options.skip + 1
        upto == IF options.limit = 0 THEN Len(all)
                ELSE Min(Len(all), options.skip + Abs(options.limit))
    IN  IF from > upto THEN <<>> ELSE SubSeq(all, from, upto)

findById(st, model, id) ==
    IF \E d \in Collection(st, model) : d.id = id
    THEN CHOOSE d \in Collection(st, model) : d.id = id
    ELSE NoDoc

SetCollection(st, model, docs) == [st EXCEPT !.db[st.handles[model]] = docs]

\* new Model(body).save(): the insert stamps both timestamps with the same instant.
save(st, model, body) ==
    LET doc == [id |-> st.nextId, createdAt |-> st.now, updatedAt |-> st.now, fields |-> body]
    IN  [st |-> [SetCollection(st, model, Collection(st, model) \cup {doc})
                    EXCEPT !.nextId = @ + 1, !.now = @ + 1],
         doc |-> doc]

\* { ...fields, ...body }
Merge(fields, body) ==
    [k \in DOMAIN fields \cup DOMAIN body |-> IF k \in DOMAIN body THEN body[k] ELSE fields[k]]

\* findByIdAndUpdate(id, { $set: body }, { new: true }): the fields of the body are
\* set, updatedAt is stamped, and the document as updated is returned.
UpdateSet(old, body, t) == [old EXCEPT !.fields = Merge(@, body), !.updatedAt = t]

\* findByIdAndUpdate(id, body, { new: true, overwrite: true }). Mongoose up to 6
\* replaces the document by the body, and the timestamps plugin stamps createdAt
\* and updatedAt of a replacement with the instant of the update; from Mongoose 7
\* on the overwrite option is gone and the body is applied as { $set: body }.
UpdateOverwrite(old, body, t, replaces) ==
    IF replaces THEN [id |-> old.id, createdAt |-> t, updatedAt |-> t, fields |-> body]
    ELSE UpdateSet(old, body, t)

\* The store's part of findByIdAndUpdate: the document is swapped for its update.
findByIdAndUpdate(st, model, old, new) ==
    [SetCollection(st, model, (Collection(st, model) \ {old}) \cup {new})
        EXCEPT !.now = @ + 1]

findByIdAndDelete(st, model, old) == SetCollection(st, model, Collection(st, model) \ {old})

\* A deleteMany that leaves the newest document
deleteManyKeeping(st, model) ==
    SetCollection(st, model, {d \in Collection(st, model) : d.id = st.nextId - 1})

\* Model.deleteMany({})
deleteMany(st, model) == SetCollection(st, model, {})

----------------------------------------------------------------------------
(* Route handlers, lines 214-426. A handler maps the state it finds to the state it
   leaves and the response it sends; storeUp says whether its store operation succeeds
   (it throws when MongoDB is unreachable, and the handler's catch answers 500). *)

Ran(answer, handler, calls, model, ops) ==
    [answer EXCEPT !.handler = handler, !.registryCalls = calls, !.model = model,
                 !.storeOps = ops, !.parsed = TRUE]

InvalidName(handler) == Ran(JsonError(400, "Invalid collection name"), handler, 0, 0, 0)
InvalidId(handler) == Ran(JsonError(400, "Invalid document ID"), handler, 0, 0, 0)
EmptyBody(handler) == Ran(JsonError(400, "Request body cannot be empty"), handler, 0, 0, 0)
NotFound(handler, model) == Ran(JsonError(404, "Document not found"), handler, 1, model, 1)
\* catch (error) { res.status(500).json({ error: error.message }) }
Caught(handler, calls, model, ops) == Ran(JsonError(500, "error.message"), handler, calls, model, ops)

\* A list that awaits countDocuments(): the handle, the translated query, and the
\* documents find() returned. NoPending stands for none.
NoPending == [ip |-> "none", req |-> NoRequest, model |-> 0, query |-> <<>>,
              options |-> buildQuery(<<>>).options, documents |-> <<>>, afterClear |-> FALSE]

\* A handler's outcome: the state it leaves and the response it sent.
Done(st, answer) == [st |-> st, resp |-> answer, pending |-> NoPending]

Touched(st, coll) == [st EXCEPT !.cleared = @ \ {sanitizedName(coll)}]

\* Lines 215-231: GET /collections
listCollections(st, r, storeUp) ==
    IF ~storeUp
    THEN Done(st, Ran(JsonError(500, "Failed to fetch collections"), "collections", 0, 0, 1))
    ELSE Done(st,
          [Ran(JsonOk(200), "collections", 0, 0, 1) EXCEPT !.count = Cardinality(DOMAIN st.db)])

\* Lines 265-288: GET /:collection/:id
getOne(st, r, storeUp) ==
    IF ~isValidCollectionName(r.coll) THEN Done(st, InvalidName("getOne"))
    ELSE IF ~r.id.ok THEN Done(st, InvalidId("getOne"))
    ELSE LET g == getDynamicModel(st, r.coll)
             doc == findById(g.st, g.model, r.id.n)
         IN  IF g.threw THEN Done(g.st, Caught("getOne", 1, 0, 0))
             ELSE IF ~storeUp THEN Done(g.st, Caught("getOne", 1, g.model, 1))
             ELSE IF doc = NoDoc THEN Done(g.st, NotFound("getOne", g.model))
             ELSE Done(g.st,
                   [Ran(JsonOk(200), "getOne", 1, g.model, 1) EXCEPT !.doc = doc])

\* Lines 291-311: POST /:collection
create(st, r, storeUp) ==
    IF ~isValidCollectionName(r.coll) THEN Done(st, InvalidName("create"))
    ELSE IF DOMAIN r.body = {} THEN Done(st, EmptyBody("create"))
    ELSE LET g == getDynamicModel(st, r.coll)
             saved == save(g.st, g.model, r.body)
         IN  IF g.threw THEN Done(g.st, Caught("create", 1, 0, 0))
             ELSE IF ~storeUp THEN Done(g.st, Caught("create", 1, g.model, 1))
             ELSE Done(Touched(saved.st, r.coll),
                   [Ran(JsonOk(201), "create", 1, g.model, 1) EXCEPT !.doc = saved.doc])

\* The common part of PUT and PATCH /:collection/:id, lines 314-379. PUT passes the
\* body with overwrite: true and PATCH passes { $set: body }; `replaces` is whether the
\* installed Mongoose honours overwrite: true.
update(handler, st, r, storeUp, overwrite, replaces) ==
    IF ~isValidCollectionName(r.coll) THEN Done(st, InvalidName(handler))
    ELSE IF ~r.id.ok THEN Done(st, InvalidId(handler))
    ELSE IF DOMAIN r.body = {} THEN Done(st, EmptyBody(handler))
    ELSE LET g == getDynamicModel(st, r.coll)
             old == findById(g.st, g.model, r.id.n)
             new == IF overwrite THEN UpdateOverwrite(old, r.body, g.st.now, replaces)
                    ELSE UpdateSet(old, r.body, g.st.now)
         IN  IF g.threw THEN Done(g.st, Caught(handler, 1, 0, 0))
             ELSE IF ~storeUp THEN Done(g.st, Caught(handler, 1, g.model, 1))
             ELSE IF old = NoDoc THEN Done(g.st, NotFound(handler, g.model))
             ELSE Done(Touched(findByIdAndUpdate(g.st, g.model, old, new), r.coll),
                   [Ran(JsonOk(200), handler, 1, g.model, 1)
                                EXCEPT !.doc = new, !.prev = old])

\* Lines 314-345: PUT /:collection/:id
replace(st, r, storeUp, replaces) == update("replace", st, r, storeUp, TRUE, replaces)

\* Lines 348-379: PATCH /:collection/:id
patch(st, r, storeUp) == update("patch", st, r, storeUp, FALSE, FALSE)

\* Lines 382-405: DELETE /:collection/:id
deleteOne(st, r, storeUp) ==
    IF ~isValidCollectionName(r.coll) THEN Done(st, InvalidName("deleteOne"))
    ELSE IF ~r.id.ok THEN Done(st, InvalidId("deleteOne"))
    ELSE LET g == getDynamicModel(st, r.coll)
             old == findById(g.st, g.model, r.id.n)
         IN  IF g.threw THEN Done(g.st, Caught("deleteOne", 1, 0, 0))
             ELSE IF ~storeUp THEN Done(g.st, Caught("deleteOne", 1, g.model, 1))
             ELSE IF old = NoDoc THEN Done(g.st, NotFound("deleteOne", g.model))
             ELSE Done(Touched(findByIdAndDelete(g.st, g.model, old), r.coll),
                   [Ran(JsonOk(200), "deleteOne", 1, g.model, 1) EXCEPT !.doc = old])

\* DELETE /:collection without its call of the validator
deleteAllUnvalidated(st, r, storeUp) ==
    LET g == getDynamicModel(st, r.coll)
        after == deleteMany(g.st, g.model)
    IN  IF ~storeUp THEN Done(g.st, Caught("deleteAll", 1, g.model, 1))
        ELSE Done([after EXCEPT !.cleared = @ \cup {sanitizedName(r.coll)}],
              [Ran(JsonOk(200), "deleteAll", 1, g.model, 1)
                           EXCEPT !.deletedCount = Cardinality(Collection(g.st, g.model))])

\* Lines 408-426: DELETE /:collection
deleteAll(st, r, storeUp) ==
    IF ~isValidCollectionName(r.coll) THEN Done(st, InvalidName("deleteAll"))
    ELSE LET g == getDynamicModel(st, r.coll)
             after == deleteMany(g.st, g.model)
         IN  IF g.threw THEN Done(g.st, Caught("deleteAll", 1, 0, 0))
             ELSE IF ~storeUp THEN Done(g.st, Caught("deleteAll", 1, g.model, 1))
             ELSE Done([after EXCEPT !.cleared = @ \cup {sanitizedName(r.coll)}],
                   [Ran(JsonOk(200), "deleteAll", 1, g.model, 1)
                                EXCEPT !.deletedCount = Cardinality(Collection(g.st, g.model))
                                                        - Cardinality(Collection(after, g.model))])

\* Lines 234-249: GET /:collection up to the await of find(). The handler answers at
\* once (resp), or awaits countDocuments() with the documents found (pending).
listFind(st, ip, r, storeUp) ==
    IF ~isValidCollectionName(r.coll)
    THEN [st |-> st, resp |-> InvalidName("list"), pending |-> NoPending]
    ELSE LET g == getDynamicModel(st, r.coll)
             q == buildQuery(r.query)
         IN  IF g.threw
             THEN [st |-> g.st, resp |-> Caught("list", 1, 0, 0), pending |-> NoPending]
             ELSE IF ~storeUp
             THEN [st |-> g.st, resp |-> Caught("list", 1, g.model, 1), pending |-> NoPending]
             ELSE [st |-> g.st, resp |-> NoResponse,
                   pending |-> [ip |-> ip, req |-> r, model |-> g.model, query |-> q.query,
                                                  options |-> q.options,
                                documents |-> find(g.st, g.model, q.query, q.options),
                                afterClear |-> sanitizedName(r.coll) \in g.st.cleared]]

\* Lines 251-261: GET /:collection from countDocuments() on
listCount(st, p, storeUp) ==
    IF ~storeUp
    THEN [Caught("list", 1, p.model, 2) EXCEPT !.ip = p.ip]
    ELSE [Ran(JsonOk(200), "list", 1, p.model, 2)
            EXCEPT !.ip = p.ip, !.count = Len(p.documents),
                   !.total = countDocuments(st, p.model, p.query),
                   !.limit = p.options.limit]

----------------------------------------------------------------------------
(* The middleware chain, lines 14-65 and 428-437, in the order of app.use *)

GlobalMax == 100
WriteMax == 30

\* express-rate-limit: a request is counted, and refused when the count is over max.
Exceeds(hits, max) == hits > max

\* The limiter's answer: res.status(429).send(message), the message a string.
TooMany(message) == Response(429, "text", FALSE, message)

\* Line 33: express.static("public") answers a GET of a file of public/ itself.
IsStatic(r) == r.method = "GET" /\ r.shape = "one" /\ r.coll = IndexHtml

\* The route a request is dispatched to, in the order the routes are registered.
Route(r) ==
    IF r.shape = "one"
    THEN CASE r.method = "GET" -> IF r.coll = Collections THEN "collections" ELSE "list"
           [] r.method = "POST" -> "create"
           [] r.method = "DELETE" -> "deleteAll"
           [] OTHER -> "none"
    ELSE IF r.shape = "two"
    THEN CASE r.method = "GET" -> "getOne"
           [] r.method = "PUT" -> "replace"
           [] r.method = "PATCH" -> "patch"
           [] r.method = "DELETE" -> "deleteOne"
           [] OTHER -> "none"
    ELSE "none"

\* The routes registered with writeLimiter, lines 291, 314, 348, 382 and 408.
EveryRoute(route) == route # "none"
UsesWriteLimiter(route) == route \in {"create", "replace", "patch", "deleteOne", "deleteAll"}

\* The handler of a route; "none" is the 404 handler of lines 429-431.
Dispatch(route, st, ip, r, storeUp, replaces) ==
    CASE route = "collections" -> listCollections(st, r, storeUp)
      [] route = "list" -> listFind(st, ip, r, storeUp)
      [] route = "getOne" -> getOne(st, r, storeUp)
      [] route = "create" -> create(st, r, storeUp)
      [] route = "replace" -> replace(st, r, storeUp, replaces)
      [] route = "patch" -> patch(st, r, storeUp)
      [] route = "deleteOne" -> deleteOne(st, r, storeUp)
      [] route = "deleteAll" -> deleteAll(st, r, storeUp)
      [] OTHER -> Done(st, [JsonError(404, "Endpoint not found") EXCEPT !.parsed = TRUE])

\* Lines 434-437: the error handler, reached by next(err)
ErrorHandler == JsonError(500, "Something went wrong!")

\* What the chain does with a request r that finds the limiters' counts of its IP
\* at g and w: `handled` is what the request's route handler does once it is reached.
Chain(st, g, w, r, handled) ==
    LET same == [g |-> g, w |-> w, st |-> st, resp |-> NoResponse, pending |-> NoPending]
    IN  IF IsStatic(r) THEN [same EXCEPT !.resp = Response(200, "file", FALSE, "")]
        \* lines 36-37: the parser refuses the body with next(err), status 413
        ELSE IF r.oversize THEN [same EXCEPT !.resp = ErrorHandler]
        \* line 56
        ELSE IF Exceeds(g + 1, GlobalMax)
        THEN [same EXCEPT !.g = g + 1,
                !.resp = TooMany("Too many requests from this IP, please try again later.")]
        ELSE IF ~UsesWriteLimiter(Route(r))
        THEN [g |-> g + 1, w |-> w, st |-> handled.st, resp |-> handled.resp,
              pending |-> handled.pending]
        ELSE IF Exceeds(w + 1, WriteMax)
        THEN [same EXCEPT !.g = g + 1, !.w = w + 1,
                !.resp = TooMany("Too many write operations from this IP, please try again later.")]
        ELSE [g |-> g + 1, w |-> w + 1, st |-> handled.st, resp |-> handled.resp,
              pending |-> NoPending]

----------------------------------------------------------------------------
(* Actions *)

NotTranslated == [query |-> <<>>, options |-> buildQuery(<<>>).options, done |-> FALSE]

Init ==
    /\ globalHits = [ip \in IPs |-> 0]
    /\ writeHits = [ip \in IPs |-> 0]
    /\ dynamicModels = <<>>
    /\ handles = <<>>
    /\ db = <<>>
    /\ now = 1
    /\ nextId = 1
    /\ inflight = {}
    /\ req = NoRequest
    /\ resp = NoResponse
    /\ seen = [ip \in IPs |-> 0]
    /\ seenWrites = [ip \in IPs |-> 0]
    /\ cleared = {}
    /\ queryParams = <<>>
    /\ translated = NotTranslated

\* The server receives request r from ip and runs it up to its response, or, for a
\* list, up to the await of its second store operation.
Receive(ip, r, storeUp, replaces) ==
    \E handled \in {Dispatch(Route(r), HandlerState, ip, r, storeUp, replaces)} :
    \E out \in {Chain(HandlerState, globalHits[ip], writeHits[ip], r, handled)} :
    LET nth == seen[ip] + 1
        nthWrite == seenWrites[ip] + (IF r.method \in WriteMethods THEN 1 ELSE 0)
    IN  /\ globalHits' = [globalHits EXCEPT ![ip] = out.g]
        /\ writeHits' = [writeHits EXCEPT ![ip] = out.w]
        /\ seen' = [seen EXCEPT ![ip] = nth]
        /\ seenWrites' = [seenWrites EXCEPT ![ip] = nthWrite]
        /\ dynamicModels' = out.st.dynamicModels
        /\ handles' = out.st.handles
        /\ db' = out.st.db
        /\ now' = out.st.now
        /\ nextId' = out.st.nextId
        /\ cleared' = out.st.cleared
        /\ inflight' = IF out.pending = NoPending THEN inflight
                       ELSE inflight \cup {out.pending}
        /\ IF out.resp = NoResponse
           THEN req' = NoRequest /\ resp' = NoResponse
           ELSE req' = r /\ resp' = [out.resp EXCEPT !.ip = ip]
        /\ UNCHANGED <<queryParams, translated>>

\* A list that awaited find() gets the result of countDocuments() and answers.
ListAnswers(p, storeUp) ==
    /\ p \in inflight
    /\ inflight' = inflight \ {p}
    /\ req' = p.req
    /\ resp' = listCount(HandlerState, p, storeUp)
    /\ UNCHANGED <<globalHits, writeHits, dynamicModels, handles, db, now, nextId,
                   seen, seenWrites, cleared, queryParams, translated>>

\* The 15 minutes of windowMs are over: both limiters forget their counts.
WindowElapses ==
    /\ \E ip \in IPs : seen[ip] > 0
    /\ globalHits' = [ip \in IPs |-> 0]
    /\ writeHits' = [ip \in IPs |-> 0]
    /\ seen' = [ip \in IPs |-> 0]
    /\ seenWrites' = [ip \in IPs |-> 0]
    /\ req' = NoRequest
    /\ resp' = NoResponse
    /\ UNCHANGED <<dynamicModels, handles, db, now, nextId, inflight, cleared,
                   queryParams, translated>>

----------------------------------------------------------------------------
(* Requests the specifications draw from *)

NameA == <<"a">>
Name50 == Rep("a", NameMaxLen)
Name51 == Rep("a", NameMaxLen + 1)
NameDollar == <<"a", "$">>
NameDots == <<".", ".">>

FieldA == <<"a">>
FieldB == <<"b">>

Get(shape, coll, id, query) == Request("GET", shape, coll, id, query, <<>>, FALSE)
Write(method, shape, coll, id, body) == Request(method, shape, coll, id, <<>>, body, FALSE)
TooBig(r) == [r EXCEPT !.oversize = TRUE]

\* GET /index.html, and a POST that no route matches
StaticGet == Get("one", IndexHtml, BadId, <<>>)
Unrouted == Write("POST", "other", <<>>, BadId, FieldA :> Num(1))

\* The requests of the seven routes for the given names, ids, queries and bodies
RouteRequests(names, ids, queries, bodies) ==
    {Get("one", c, BadId, q) : c \in names, q \in queries}
      \cup {Get("two", c, i, <<>>) : c \in names, i \in ids}
      \cup {Write("POST", "one", c, BadId, b) : c \in names, b \in bodies}
      \cup {Write(m, "two", c, i, b) : m \in {"PUT", "PATCH"}, c \in names, i \in ids, b \in bodies}
      \cup {Write("DELETE", "two", c, i, <<>>) : c \in names, i \in ids}
      \cup {Write("DELETE", "one", c, BadId, <<>>) : c \in names}

MaxBurst == 1      \* requests of an IP in one window, where the caps are not the subject
MaxTime == 3       \* the last instant of the clock
MaxDocs == 2       \* documents ever created
MaxInFlight == 1   \* lists awaiting countDocuments()

\* The bounds of a run: what the step leaves is within them.
Bounded(ip) ==
    /\ seen'[ip] <= MaxBurst
    /\ now' <= MaxTime
    /\ nextId' <= MaxDocs + 1
    /\ Cardinality(inflight') <= MaxInFlight

ListAnswer == \E p \in inflight, storeUp \in BOOLEAN : ListAnswers(p, storeUp)

----------------------------------------------------------------------------
(* The documents of one collection: created, patched, listed and deleted *)

BodyA1 == FieldA :> Num(1)
BodyA2 == FieldA :> Num(2)
BodyA1B3 == (FieldA :> Num(1)) @@ (FieldB :> Num(3))

DocIds == {Oid(i) : i \in 1..MaxDocs}

CrudRequests ==
    {Get("one", NameA, BadId, q) : q \in {<<>>, <<<<KeyLimit, <<"1">>>>>>}}
      \cup {Write("POST", "one", NameA, BadId, b) : b \in {BodyA1, <<>>}}
      \cup {Write("PATCH", "two", NameA, i, BodyA2) : i \in DocIds}
      \cup {Write("DELETE", "two", NameA, i, <<>>) : i \in DocIds}
      \cup {Write("DELETE", "one", NameA, BadId, <<>>)}
      \cup {TooBig(Write("POST", "one", NameA, BadId, BodyA2)),
            TooBig(Write("PATCH", "two", NameA, Oid(1), BodyA1B3)),
            TooBig(Write("DELETE", "one", NameA, BadId, <<>>))}

CrudRequest ==
    \E r \in CrudRequests :
        /\ Receive("ip1", r, TRUE, TRUE)
        /\ Bounded("ip1")

Next == CrudRequest \/ ListAnswer \/ WindowElapses

Spec == Init /\ [][Next]_vars

----------------------------------------------------------------------------
(* One document, replaced and patched *)

UpdateRequests ==
    {Write("POST", "one", NameA, BadId, b) : b \in {BodyA1B3, BodyA1}}
      \cup {Write(m, "two", NameA, i, b) : m \in {"PUT", "PATCH"}, i \in DocIds,
                                            b \in {BodyA2, <<>>}}
      \cup {Get("two", NameA, i, <<>>) : i \in DocIds}

UpdateRequest ==
    \E r \in UpdateRequests, storeUp \in BOOLEAN, replaces \in BOOLEAN :
        /\ Receive("ip1", r, storeUp, replaces)
        /\ Bounded("ip1")

NextUpdate == UpdateRequest \/ WindowElapses

SpecUpdate == Init /\ [][NextUpdate]_vars

----------------------------------------------------------------------------
(* The routes and the registry: every route, with names the validator accepts and
   names it refuses *)

MaxRouteDocs == 0  \* documents ever created while the routes are the subject

RoutesRequests ==
    RouteRequests({NameA, Name50, Name51, NameDollar}, {Oid(1)}, {<<>>}, {BodyA1})
      \cup {Write("PUT", "two", NameA, BadId, BodyA1),
            Write("POST", "one", NameA, BadId, <<>>),
            Get("two", NameDots, Oid(1), <<>>),
            TooBig(Write("POST", "one", NameDollar, BadId, BodyA1)),
            Get("one", Collections, BadId, <<>>), StaticGet, Unrouted}

\* Each request arrives in a window of its own: the caps are not the subject here.
RoutesRequest ==
    \E r \in RoutesRequests, storeUp \in BOOLEAN :
        /\ seen["ip1"] = 0
        /\ Receive("ip1", r, storeUp, TRUE)
        /\ now' <= MaxTime
        /\ nextId' <= MaxRouteDocs + 1
        /\ Cardinality(inflight') <= MaxInFlight

NextRoutes == RoutesRequest \/ ListAnswer \/ WindowElapses

SpecRoutes == Init /\ [][NextRoutes]_vars

----------------------------------------------------------------------------
(* The rate limiters at their configured caps *)

MaxUncounted == 1  \* requests of an IP in one window that a limiter does not count
MaxOver == 1       \* requests of an IP in one window past a cap
MaxOtherIp == 1    \* requests of the second IP in one window

RateRequests ==
    {Get("two", NameA, Oid(1), <<>>), Write("DELETE", "one", NameA, BadId, <<>>),
     TooBig(Write("POST", "one", NameA, BadId, BodyA1)), StaticGet, Unrouted}

OtherIpRequest ==
    /\ Receive("ip2", Get("two", NameA, Oid(1), <<>>), TRUE, TRUE)
    /\ seen'["ip2"] <= MaxOtherIp

RateRequest ==
    \E r \in RateRequests :
        /\ Receive("ip1", r, TRUE, TRUE)
        /\ seen'["ip1"] - globalHits'["ip1"] <= MaxUncounted
        /\ seenWrites'["ip1"] - writeHits'["ip1"] <= MaxUncounted
        /\ globalHits'["ip1"] <= GlobalMax + MaxOver
        /\ writeHits'["ip1"] <= WriteMax + MaxOver

NextRate == RateRequest \/ OtherIpRequest \/ WindowElapses

SpecRate == Init /\ [][NextRate]_vars

----------------------------------------------------------------------------
(* The translator on its own: buildQuery applied to a query-parameter mapping *)

MaxValueLen == 4
MaxParams == 3

\* Every string of at most n characters of a set
Strings(chars, n) == UNION {[1..k -> chars] : k \in 0..n}

\* Values of _limit: signs, digits, a letter and the x of a 0x prefix
LimitValues == Strings({"-", "0", "1", "5", "a", "x"}, MaxValueLen)

FieldF == <<"f">>
FilterKeys == {FieldF, FieldF \o SufGte, FieldF \o SufLte, FieldF \o SufNe,
               <<"g">> \o SufNe, <<"g">> \o SufGte}
FilterValues == {<<"1">>, <<"5", "a">>}

\* Object.entries of a query string's parameters: each key once (hpp, line 43, keeps
\* one value per key), in the order of the query string.
FilterInputs ==
    {p \in UNION {[1..k -> FilterKeys \X FilterValues] : k \in 0..MaxParams} :
        \A i, j \in 1..Len(p) : i # j => p[i][1] # p[j][1]}

ParamInputs == FilterInputs \cup {<<<<KeyLimit, v>>>> : v \in LimitValues}

InitQuery ==
    /\ globalHits = [ip \in IPs |-> 0]
    /\ writeHits = [ip \in IPs |-> 0]
    /\ dynamicModels = <<>>
    /\ handles = <<>>
    /\ db = <<>>
    /\ now = 1
    /\ nextId = 1
    /\ inflight = {}
    /\ req = NoRequest
    /\ resp = NoResponse
    /\ seen = [ip \in IPs |-> 0]
    /\ seenWrites = [ip \in IPs |-> 0]
    /\ cleared = {}
    /\ queryParams \in ParamInputs
    /\ translated = NotTranslated

Translate ==
    /\ ~translated.done
    /\ translated' = [query |-> buildQuery(queryParams).query,
                      options |-> buildQuery(queryParams).options, done |-> TRUE]
    /\ UNCHANGED <<globalHits, writeHits, dynamicModels, handles, db, now, nextId,
                   inflight, req, resp, seen, seenWrites, cleared, queryParams>>

NextQuery == Translate

SpecQuery == InitQuery /\ [][NextQuery]_vars

----------------------------------------------------------------------------
(* C2 *)

Clamp(n, lo, hi) == Max(lo, Min(n, hi))

\* The only parameter is _limit
OnlyLimit == Len(queryParams) = 1 /\ queryParams[1][1] = KeyLimit

\* C2: for every value v of _limit, buildQuery sets options.limit to
\* clamp(parseInt(v) or 100, 1, 1000), which lies within [1, 1000]; with no _limit
\* key the limit is 100.
C2_LimitIsClamped ==
    translated.done =>
        /\ OnlyLimit =>
             /\ translated.options.limit
                  = Clamp(OrElse(parseInt(queryParams[1][2]), 100), 1, 1000)
             /\ translated.options.limit \in 1..1000
        /\ (\A i \in 1..Len(queryParams) : queryParams[i][1] # KeyLimit)
             => translated.options.limit = 100

----------------------------------------------------------------------------
(* C10 *)

\* The positions of the parameters that the translator reads as an operator on field f
KeysOf(f, suffix) == {i \in 1..Len(queryParams) : queryParams[i][1] = f \o suffix}

OpsOf(f) == IF f \in DOMAIN translated.query /\ translated.query[f].t = "obj"
            THEN DOMAIN translated.query[f].ops ELSE {}

\* C10 as stated: with f_ne together with f_gte and/or f_lte, in any key order, the
\* filter for f never holds a != constraint merged with a >= or <= constraint.
C10_NeNeverMerged ==
    translated.done =>
        \A f \in {FieldF, <<"g">>} :
            KeysOf(f, SufNe) # {} /\ KeysOf(f, SufGte) \cup KeysOf(f, SufLte) # {}
                => ~("$ne" \in OpsOf(f) /\ OpsOf(f) \cap {"$gte", "$lte"} # {})

\* C10 as amended: f_ne replaces what the keys before it recorded for f, and the
\* f_gte and f_lte keys after it are merged into its != constraint: when no f=x
\* key follows f_ne, the filter for f holds the != of f_ne and, of the bounds,
\* exactly those whose keys come after f_ne.
C10_NeReplacesEarlier ==
    translated.done =>
        \A f \in {FieldF, <<"g">>} : \A i \in KeysOf(f, SufNe) :
            (\A j \in KeysOf(f, <<>>) : j < i) =>
                /\ f \in DOMAIN translated.query
                /\ translated.query[f].t = "obj"
                /\ translated.query[f].ops["$ne"] = queryParams[i][2]
                /\ OpsOf(f) = {"$ne"}
                     \cup {"$gte" : j \in {k \in KeysOf(f, SufGte) : k > i}}
                     \cup {"$lte" : j \in {k \in KeysOf(f, SufLte) : k > i}}

\* f_gte came first and f_ne after it: only the != is left
C10_Witness ==
    /\ translated.done
    /\ Len(queryParams) = 2
    /\ queryParams[1][1] = FieldF \o SufGte
    /\ queryParams[2][1] = FieldF \o SufNe
    /\ OpsOf(FieldF) = {"$ne"}

----------------------------------------------------------------------------
(* C1 *)

CollectionRoutes == {"list", "create", "deleteAll", "getOne", "replace", "patch", "deleteOne"}

\* The request just answered is for one of the seven routes with a :collection
\* segment, and its collection name does not match the validator's pattern.
InvalidNameRequest(r) ==
    /\ r # NoRequest
    /\ ~IsStatic(r)
    /\ Route(r) \in CollectionRoutes
    /\ ~isValidCollectionName(r.coll)

\* C1 as stated: every request to one of the seven routes whose collection name does
\* not match the pattern is answered 400 "Invalid collection name".
C1_InvalidNameAlways400 ==
    InvalidNameRequest(req) =>
        resp.status = 400 /\ resp.error = "Invalid collection name"

\* C1 as amended: a request to one of the seven routes whose collection name does
\* not match the pattern never invokes the registry or a store operation, and when
\* the body parsers and the rate limiters let it through to its route it is answered
\* 400 with the error "Invalid collection name".
C1_InvalidNameRejected ==
    [][(seen'["ip1"] = seen["ip1"] + 1 /\ InvalidNameRequest(req')) =>
          /\ dynamicModels' = dynamicModels
          /\ handles' = handles
          /\ db' = db
          /\ inflight' = inflight
          /\ resp'.registryCalls = 0
          /\ resp'.storeOps = 0
          /\ (~req'.oversize /\ resp'.status # 429) =>
                /\ resp'.status = 400
                /\ resp'.type = "json"
                /\ resp'.hasError
                /\ resp'.error = "Invalid collection name"]_vars

\* A PUT for a name of 51 characters was answered 400 while the registry held a handle
C1_Witness ==
    /\ req.method = "PUT"
    /\ req.coll = Name51
    /\ resp.status = 400
    /\ resp.error = "Invalid collection name"
    /\ Len(handles) > 0

----------------------------------------------------------------------------
(* C3, C4 *)

\* The caps the README states
ReadmeGlobalMax == 500
ReadmeWriteMax == 100

\* The request was neither answered by express.static nor refused by a body parser,
\* both of which come before the limiters.
ReachedLimiters(r) == ~IsStatic(r) /\ ~r.oversize

\* A request with a write method for one of the routes
WriteRouted(r) == r.method \in WriteMethods /\ Route(r) \in CollectionRoutes

\* C3 as stated: a request is answered 429 exactly when, counting itself, the IP's
\* requests in the window exceed the global cap, or it is a write request and the
\* IP's write requests in the window exceed the write cap.
C3_RejectedExactlyOverCap ==
    req # NoRequest =>
        (resp.status = 429 <=>
            \/ seen[resp.ip] > GlobalMax
            \/ req.method \in WriteMethods /\ seenWrites[resp.ip] > WriteMax)

\* C3 as amended: a request is answered 429 exactly when it reached the limiters and,
\* counting itself, the requests of its IP that reached them in the window exceed the
\* global cap, or it is a write request for a route and the IP's write requests that
\* reached the write limiter exceed the write cap. A 429 is only sent to an IP whose
\* own requests exceed a cap; a write request for a route within both caps reaches
\* its handler, and a GET within the global cap reaches its handler whatever the
\* write counter.
C3_RejectedExactlyOverCount ==
    req # NoRequest =>
        LET g == globalHits[resp.ip]
            w == writeHits[resp.ip]
        IN  /\ resp.status = 429 <=>
                 /\ ReachedLimiters(req)
                 /\ g > GlobalMax \/ (WriteRouted(req) /\ w > WriteMax)
            /\ resp.status = 429 =>
                 \/ seen[resp.ip] > GlobalMax
                 \/ req.method \in WriteMethods /\ seenWrites[resp.ip] > WriteMax
            /\ (ReachedLimiters(req) /\ WriteRouted(req) /\ g <= GlobalMax /\ w <= WriteMax)
                 => resp.handler = Route(req)
            /\ (ReachedLimiters(req) /\ req.method = "GET" /\ g <= GlobalMax)
                 => resp.handler = Route(req)

\* The write past the write cap is refused while the global cap is far
C3_Witness ==
    /\ req.method = "DELETE"
    /\ resp.status = 429
    /\ writeHits["ip1"] = WriteMax + 1
    /\ globalHits["ip1"] < GlobalMax

\* C4: no request is answered 429 before its IP sent more than 500 requests or more
\* than 100 write requests in the window.
C4_ReadmeCaps ==
    resp.status = 429 =>
        \/ seen[resp.ip] > ReadmeGlobalMax
        \/ seenWrites[resp.ip] > ReadmeWriteMax

----------------------------------------------------------------------------
(* C5 *)

\* C5: at most one handle is ever constructed per sanitized name, a call of
\* getDynamicModel for a name that has a handle returns that handle, and the
\* registry's entry for a name is never replaced or removed.
C5_OneHandlePerName ==
    [][/\ \A i, j \in 1..Len(handles') : handles'[i] = handles'[j] => i = j
       /\ \A i \in 1..Len(handles) : i <= Len(handles') /\ handles'[i] = handles[i]
       /\ \A name \in DOMAIN dynamicModels :
            name \in DOMAIN dynamicModels' /\ dynamicModels'[name] = dynamicModels[name]
       /\ (seen'["ip1"] = seen["ip1"] + 1 /\ req' # NoRequest /\ resp'.registryCalls > 0) =>
            LET name == sanitizedName(req'.coll)
            IN  /\ name \in DOMAIN dynamicModels'
                /\ resp'.model = dynamicModels'[name]
                /\ handles'[resp'.model] = name
                /\ name \in DOMAIN dynamicModels => resp'.model = dynamicModels[name]]_vars

\* A call for the first name, made after a second name got its handle, returned the
\* first handle.
C5_Witness ==
    /\ Len(handles) = 2
    /\ resp.registryCalls = 1
    /\ resp.model = 1
    /\ sanitizedName(req.coll) = handles[1]

----------------------------------------------------------------------------
(* C6 *)

\* C6: PATCH with a non-empty body B changes exactly the fields of B and leaves the
\* other fields, the identifier and createdAt; PUT leaves exactly the fields of B with
\* the identifier and createdAt it had; after either, updatedAt is later than createdAt.
C6_UpdateKeepsCreatedAt ==
    (resp.status = 200 /\ resp.handler \in {"replace", "patch"}) =>
        /\ resp.doc.id = resp.prev.id
        /\ resp.doc.createdAt = resp.prev.createdAt
        /\ resp.doc.updatedAt > resp.doc.createdAt
        /\ resp.doc \in db[sanitizedName(req.coll)]
        /\ resp.handler = "replace" => resp.doc.fields = req.body
        /\ resp.handler = "patch" =>
             /\ DOMAIN resp.doc.fields = DOMAIN resp.prev.fields \cup DOMAIN req.body
             /\ \A k \in DOMAIN req.body : resp.doc.fields[k] = req.body[k]
             /\ \A k \in DOMAIN resp.prev.fields \ DOMAIN req.body :
                    resp.doc.fields[k] = resp.prev.fields[k]

----------------------------------------------------------------------------
(* C7 *)

DocsOf(store, name) == IF name \in DOMAIN store THEN store[name] ELSE {}

\* C7: DELETE /:collection on a collection of N documents answers deletedCount = N
\* and leaves it empty; a list of it without a filter, whose find and count both come
\* after the delete with no write to the collection in between, answers count 0 and
\* total 0; and a create on the emptied collection succeeds.
C7_DeleteAllEmpties ==
    [][/\ (seen'["ip1"] = seen["ip1"] + 1 /\ resp'.handler = "deleteAll" /\ resp'.status = 200) =>
            /\ resp'.deletedCount = Cardinality(DocsOf(db, sanitizedName(req'.coll)))
            /\ DocsOf(db', sanitizedName(req'.coll)) = {}
            /\ sanitizedName(req'.coll) \in DOMAIN db'
       /\ \A p \in inflight \ inflight' :
            (/\ p.afterClear
             /\ sanitizedName(p.req.coll) \in cleared
             /\ p.query = <<>>
             /\ resp'.status = 200) => resp'.count = 0 /\ resp'.total = 0
       /\ (/\ seen'["ip1"] = seen["ip1"] + 1
           /\ resp'.handler = "create"
           /\ DOMAIN req'.body # {}
           /\ sanitizedName(req'.coll) \in cleared) =>
            /\ resp'.status = 201
            /\ DocsOf(db', sanitizedName(req'.coll)) = {resp'.doc}]_vars

\* Two documents were deleted at once
C7_Witness ==
    /\ resp.handler = "deleteAll"
    /\ resp.status = 200
    /\ resp.deletedCount = 2
    /\ db[NameA] = {}

----------------------------------------------------------------------------
(* C8 *)

\* C8: a request whose body is over the limit is answered with a status of the 400
\* or 413 class before its route handler runs.
C8_OversizeRefused ==
    req.oversize => resp.status \in {400, 413} /\ resp.handler = "none"

----------------------------------------------------------------------------
(* C9 *)

\* C9: every response with status 400, 404, 429 or 500 has a JSON object body with
\* an `error` field.
C9_FailuresAreJson ==
    resp.status \in {400, 404, 429, 500} => resp.type = "json" /\ resp.hasError

----------------------------------------------------------------------------
(* C11 *)

\* The filter after the first i parameters
QueryAfter(i) == buildQuery(SubSeq(queryParams, 1, i)).query

\* The filter holds the constraint f = x
HoldsEquality(query, f, x) ==
    /\ f \in DOMAIN query
    /\ \/ query[f] = StrVal(x)
       \/ /\ query[f].t = "obj"
          /\ "$eq" \in DOMAIN query[f].ops
          /\ query[f].ops["$eq"] = x

\* Parameter i, f_gte or f_lte with operator op, kept what the filter held for f
\* and added its bound.
BoundMerged(f, i, op) ==
    LET before == QueryAfter(i - 1)
        after == QueryAfter(i)
    IN  /\ f \in DOMAIN after
        /\ after[f].t = "obj"
        /\ op \in DOMAIN after[f].ops
        /\ after[f].ops[op] = queryParams[i][2]
        /\ (f \in DOMAIN before /\ before[f].t = "obj") =>
              \A k \in DOMAIN before[f].ops \ {op} :
                  k \in DOMAIN after[f].ops /\ after[f].ops[k] = before[f].ops[k]
        /\ (f \in DOMAIN before /\ before[f].t = "str") =>
              HoldsEquality(after, f, before[f].s)

\* C11: processing f_gte=v or f_lte=v keeps every constraint an earlier key recorded
\* for f (an earlier bound or an earlier equality f=x) and adds the new bound; f_gte
\* and f_lte in either order give a filter holding both bounds.
C11_BoundsKeepEarlier ==
    translated.done =>
        /\ translated.query = QueryAfter(Len(queryParams))
        /\ \A f \in {FieldF, <<"g">>} :
             /\ \A i \in KeysOf(f, SufGte) : BoundMerged(f, i, "$gte")
             /\ \A i \in KeysOf(f, SufLte) : BoundMerged(f, i, "$lte")
             /\ (/\ Len(queryParams) = 2
                 /\ KeysOf(f, SufGte) # {}
                 /\ KeysOf(f, SufLte) # {}) => OpsOf(f) = {"$gte", "$lte"}

----------------------------------------------------------------------------
(* C12 *)

\* C12: in every List response, count is at most total and at most the effective
\* limit, also when creates or deletes on the collection by other requests come
\* between the handler's find and its countDocuments.
C12_CountWithinTotal ==
    (resp.handler = "list" /\ resp.status = 200) =>
        /\ resp.count <= resp.total
        /\ resp.count <= resp.limit

====
